---- MODULE Spec2Model ----
(***************************************************************************)
(* Model of the Blynk protocol engine for CircuitPython                    *)
(* (blynk_legacy_library/blynklib_circuitpython.py): class BlynkProtocol   *)
(* and its socket transport class Blynk; and of the stand-alone client     *)
(* blynk_client.Blynk, whose object is the variable client.                *)
(*                                                                         *)
(* Text is a sequence of code points, bytes are numbers 0..255, a frame is *)
(* a sequence of bytes.  Every public call is one action; the calls it     *)
(* makes are operators over a record of the object's fields, and an        *)
(* exception in flight is the field exc of that record.                    *)
(***************************************************************************)
EXTENDS Integers, Sequences, FiniteSets, TLC

VARIABLES state, msg_id, lastRecv, lastSend, lastPing, bin, callbacks,
          conn, last_connect_attempt, buffin,
          now, wire, out, call, ret,
          client, cout

vars == <<state, msg_id, lastRecv, lastSend, lastPing, bin, callbacks,
          conn, last_connect_attempt, buffin, now, wire, out, call, ret,
          client, cout>>

(* ---------------- bounds of the model ---------------- *)
HeartbeatSec == 1
MaxHandlers == 1
MaxMsgId == 3
MaxFailAt == 1
MaxBurst == 2
MaxFields == 2
MaxSilentCalls == 4

(* ---------------- program constants ---------------- *)
MSG_RSP == 0
MSG_LOGIN == 2
MSG_PING == 6
MSG_TWEET == 12
MSG_EMAIL == 13
MSG_NOTIFY == 14
MSG_BRIDGE == 15
MSG_HW_SYNC == 16
MSG_INTERNAL == 17
MSG_PROPERTY == 19
MSG_HW == 20
MSG_HW_LOGIN == 29
MSG_EVENT_LOG == 64

STA_SUCCESS == 200
STA_INVALID_TOKEN == 9

DISCONNECTED == 0
CONNECTING == 1
CONNECTED == 2

connect_retry_interval == 5000
MaxId16 == 65535

heartbeat == HeartbeatSec * 1000

(* ---------------- text literals of the source ---------------- *)
VERSION == <<48, 46, 50, 46, 49>>                        \* "0.2.1"
S_connected == <<99, 111, 110, 110, 101, 99, 116, 101, 100>>
S_disconnected == <<100, 105, 115>> \o S_connected
S_V == <<86>>
S_readV == <<114, 101, 97, 100, 86>>
S_star == <<42>>
S_int == <<105, 110, 116, 95>>                           \* "int_"
S_vw == <<118, 119>>
S_vr == <<118, 114>>
S_ver == <<118, 101, 114>>
S_hbeat == <<104, 45, 98, 101, 97, 116>>
S_buffin == <<98, 117, 102, 102, 45, 105, 110>>
S_dev == <<100, 101, 118>>
S_cp == <<99, 112>>
auth == <<116, 107>>                                     \* the token "tk"

(* ---------------- helpers ---------------- *)
RECURSIVE IntToStr(_)
IntToStr(n) ==
    IF n < 10 THEN <<48 + n>>
    ELSE IntToStr(n \div 10) \o <<48 + (n % 10)>>

RECURSIVE JoinNul(_)
JoinNul(ss) ==
    IF Len(ss) = 0 THEN <<>>
    ELSE IF Len(ss) = 1 THEN ss[1]
    ELSE ss[1] \o <<0>> \o JoinNul(Tail(ss))

RECURSIVE Utf8Encode(_)
Utf8Encode(s) ==
    IF Len(s) = 0 THEN <<>>
    ELSE LET c == s[1]
             b == IF c < 128 THEN <<c>>
                  ELSE IF c < 2048 THEN <<192 + (c \div 64), 128 + (c % 64)>>
                  ELSE IF c < 65536
                       THEN <<224 + (c \div 4096), 128 + ((c \div 64) % 64),
                              128 + (c % 64)>>
                  ELSE <<240 + (c \div 262144), 128 + ((c \div 4096) % 64),
                         128 + ((c \div 64) % 64), 128 + (c % 64)>>
         IN b \o Utf8Encode(Tail(s))

IsCont(b) == b >= 128 /\ b <= 191

\* bytes.decode('utf8'): ok = FALSE stands for UnicodeDecodeError
RECURSIVE Utf8Decode(_)
Utf8Decode(b) ==
    IF Len(b) = 0 THEN [ok |-> TRUE, s |-> <<>>]
    ELSE
      LET b1 == b[1]
          n == IF b1 < 128 THEN 1
               ELSE IF b1 >= 194 /\ b1 <= 223 THEN 2
               ELSE IF b1 >= 224 /\ b1 <= 239 THEN 3
               ELSE IF b1 >= 240 /\ b1 <= 244 THEN 4
               ELSE 0
      IN IF n = 0 \/ Len(b) < n THEN [ok |-> FALSE, s |-> <<>>]
         ELSE
           LET contOk == \A i \in 2..n : IsCont(b[i])
               cp == IF n = 1 THEN b1
                     ELSE IF n = 2 THEN (b1 - 192) * 64 + (b[2] - 128)
                     ELSE IF n = 3
                          THEN (b1 - 224) * 4096 + (b[2] - 128) * 64 + (b[3] - 128)
                     ELSE (b1 - 240) * 262144 + (b[2] - 128) * 4096
                          + (b[3] - 128) * 64 + (b[4] - 128)
               rangeOk == CASE n = 1 -> TRUE
                            [] n = 2 -> TRUE
                            [] n = 3 -> cp >= 2048 /\ ~(cp >= 55296 /\ cp <= 57343)
                            [] OTHER -> cp >= 65536 /\ cp <= 1114111
               rest == Utf8Decode(SubSeq(b, n + 1, Len(b)))
           IN IF contOk /\ rangeOk /\ rest.ok
              THEN [ok |-> TRUE, s |-> <<cp>> \o rest.s]
              ELSE [ok |-> FALSE, s |-> <<>>]

\* bytes.split(b'\0'): always at least one (possibly empty) piece
RECURSIVE SplitNul(_)
SplitNul(b) ==
    IF \A i \in 1..Len(b) : b[i] # 0 THEN <<b>>
    ELSE LET k == CHOOSE i \in 1..Len(b) :
                      b[i] = 0 /\ \A j \in 1..(i - 1) : b[j] # 0
         IN <<SubSeq(b, 1, k - 1)>> \o SplitNul(SubSeq(b, k + 1, Len(b)))

\* mutant: the pieces are taken byte by byte, not decoded as UTF-8
DecodeArgs_Bytes(data) == SplitNul(data)

\* list(map(lambda x: x.decode('utf8'), data.split(b'\0'))), [] on failure
DecodeArgs(data) ==
    LET parts == SplitNul(data)
        dec == [i \in 1..Len(parts) |-> Utf8Decode(parts[i])]
    IN IF \A i \in 1..Len(parts) : dec[i].ok
       THEN [i \in 1..Len(parts) |-> dec[i].s]
       ELSE <<>>

\* struct.pack("!BHH", cmd, msg_id, dlen)
PackHdr(cmd, id, dlen) ==
    <<cmd % 256, (id \div 256) % 256, id % 256, (dlen \div 256) % 256, dlen % 256>>

\* struct.unpack("!BHH", hdr)
UnpackHdr(hdr) ==
    [cmd |-> hdr[1], msg_id |-> hdr[2] * 256 + hdr[3], dlen |-> hdr[4] * 256 + hdr[5]]

Drop(s, n) == SubSeq(s, n + 1, Len(s))
Take(s, n) == SubSeq(s, 1, n)


(* ---------------- the log of one public call ---------------- *)
\* One entry per self.log(...) line, handler invocation or transport write.
Entry(t, key, shape, pin, vals, cmd, id, n, st, bytes, res) ==
    [t |-> t, key |-> key, shape |-> shape, pin |-> pin, vals |-> vals,
     cmd |-> cmd, id |-> id, n |-> n, st |-> st, bytes |-> bytes, res |-> res]

Mark(t, st) == Entry(t, <<>>, "", <<>>, <<>>, 0, 0, 0, st, <<>>, "")
FrameEntry(t, cmd, id, n, vals, st, bytes) ==
    Entry(t, <<>>, "", <<>>, vals, cmd, id, n, st, bytes, "")

Log(e, entry) == [e EXCEPT !.out = Append(@, entry)]

(* ---------------- handlers (user code) ---------------- *)
\* What a registered callable does when it is invoked:
\*   ok          returns
\*   legacy      takes no parameters: TypeError when given any argument
\*   raise       raises an exception that is not a TypeError
\*   disconnect  calls blynk.disconnect() and returns
Behaviours == {"ok", "legacy", "raise", "disconnect"}

HandlerResult(b, withArgs) ==
    CASE b = "legacy" -> IF withArgs THEN "TypeError" ELSE "none"
      [] b = "raise" -> "Exception"
      [] OTHER -> "none"

RECURSIVE emit(_, _, _, _, _, _)
RECURSIVE disconnect(_)

\* mutant: disconnect does not look at the state
AlreadyDisconnected_Never(e) == FALSE

\* disconnect, line 227: nothing to do when already disconnected
AlreadyDisconnected(e) == e.state = DISCONNECTED

\* BlynkProtocol.disconnect
ProtocolDisconnect(e) ==
    IF AlreadyDisconnected(e) THEN e
    ELSE emit([e EXCEPT !.state = DISCONNECTED], S_disconnected, "none", <<>>, <<>>, 0)

\* mutant: the socket is left open
disconnect_KeepSocket(e) == ProtocolDisconnect(e)

\* Blynk.disconnect: close the socket, then the protocol disconnect
disconnect(e) ==
    LET e1 == IF e.conn
              THEN Log([e EXCEPT !.conn = FALSE], Mark("close", e.state))
              ELSE e
    IN ProtocolDisconnect(e1)

\* one invocation self.callbacks[evt](...) of the handler registered for key
Invoke(e, key, withArgs) ==
    LET b == e.callbacks[key]
        r == HandlerResult(b, withArgs)
        e1 == Log(e, Entry("call", key, IF withArgs THEN "args" ELSE "noargs",
                           <<>>, <<>>, 0, 0, 0, e.state, <<>>, r))
    IN IF b = "disconnect" THEN disconnect(e1)
       ELSE [e1 EXCEPT !.exc = r]

\* emit, lines 113-121: the TypeError of the first invocation is caught, and
\* 'connected' is tried again without arguments
ExceptTypeError(first, key, shape) ==
    IF first.exc = "TypeError"
    THEN IF key = S_connected /\ shape = "ping"
         THEN [Invoke([first EXCEPT !.exc = "none"], key, FALSE)
                  EXCEPT !.exc = "none"]
         ELSE [first EXCEPT !.exc = "none"]
    ELSE first

\* BlynkProtocol.emit; shape tells which arguments the event carries:
\* "none", "vals" (list), "pin_vals" (pin, list), "pin" (pin), "ping" (ping=n)
emit(e, key, shape, pin, vals, n) ==
    LET e1 == Log(e, Entry("emit", key, shape, pin, vals, 0, 0, n, e.state, <<>>, ""))
    IN IF key \notin DOMAIN e.callbacks THEN e1
       ELSE ExceptTypeError(Invoke(e1, key, shape # "none"), key, shape)

(* ---------------- transport write ---------------- *)
\* raise x after the clean-up that returned d, unless the clean-up raised
Raise(d, x) == IF d.exc # "none" THEN d ELSE [d EXCEPT !.exc = x]

\* except Exception: self.disconnect(), as in _send and in run
ExceptDisconnect(r) ==
    IF r.exc # "none" THEN disconnect([r EXCEPT !.exc = "none"]) ELSE r

\* Blynk._write: the write numbered e.failAt of this call is the one the
\* socket refuses (0: none is refused)
Write(e, cmd, id, n, msg) ==
    IF ~e.conn \/ e.state = DISCONNECTED THEN [e EXCEPT !.exc = "OSError"]
    ELSE LET e1 == [e EXCEPT !.wn = @ + 1]
         IN IF e1.wn = e.failAt
            THEN Raise(disconnect(Log(e1, FrameEntry("fail", cmd, id, n, <<>>,
                                                     e.state, msg))),
                       "OSError")
            ELSE Log(e1, FrameEntry("send", cmd, id, n, <<>>, e.state, msg))

\* mutant: the counter wraps to 0
NextMsgId_ToZero(m) == (m + 1) % (MaxId16 + 1)

\* the id a message goes out with and the counter after it (id = -1: no id given)
NextMsgId(m) == IF m + 1 > MaxId16 THEN 1 ELSE m + 1

\* mutant: the guard of _send is missing
CannotSend_Never(e) == FALSE

\* _send, line 148: nothing is sent while disconnected
CannotSend(e) == e.state = DISCONNECTED

\* BlynkProtocol._send; args are the str() of the arguments, for MSG_RSP the status
Send(e, cmd, args, id) ==
    IF CannotSend(e) THEN Log(e, Mark("warn", e.state))
    ELSE
      LET mid == IF id = -1 THEN e.msg_id ELSE id
          e1 == IF id = -1 THEN [e EXCEPT !.msg_id = NextMsgId(@)] ELSE e
          data == IF cmd = MSG_RSP THEN <<>>
                  ELSE IF cmd = MSG_HW_LOGIN THEN Utf8Encode(args[1])
                  ELSE Utf8Encode(JoinNul(args))
          dlen == IF cmd = MSG_RSP
                  THEN (IF Len(args) > 0 THEN args[1] ELSE STA_SUCCESS)
                  ELSE Len(data)
          msg == PackHdr(cmd, mid, dlen) \o data
      IN ExceptDisconnect(Write([e1 EXCEPT !.lastSend = e.now], cmd, mid, dlen, msg))

(* ---------------- heartbeat policy ---------------- *)
\* mutant: the timeout fires at one and a half intervals, not after
TimedOut_AtThreshold(t, recv) == t - recv >= heartbeat + (heartbeat \div 2)

\* process, line 244
TimedOut(t, recv) == t - recv > heartbeat + (heartbeat \div 2)

\* mutant: the probe does not wait for a tenth of the interval since the last
NeedPing_NoGap(st, t, ping, send, recv) ==
    /\ st = CONNECTED
    /\ (t - send > heartbeat \/ t - recv > heartbeat)

\* process, lines 249-252
NeedPing(st, t, ping, send, recv) ==
    /\ st = CONNECTED
    /\ t - ping > heartbeat \div 10
    /\ (t - send > heartbeat \/ t - recv > heartbeat)

(* ---------------- BlynkProtocol.process ---------------- *)
\* the emit that follows a statement that returned a, unless that raised
ThenEmit(a, key, shape, pin, vals, n) ==
    IF a.exc # "none" THEN a ELSE emit(a, key, shape, pin, vals, n)

\* the dispatch of one decoded message with a body, lines 326-353
Dispatch(e, cmd, id, args) ==
    IF cmd = MSG_PING THEN Send(e, MSG_RSP, <<STA_SUCCESS>>, id)
    ELSE IF cmd = MSG_HW \/ cmd = MSG_BRIDGE
    THEN IF Len(args) > 1
         THEN LET pin_str == args[2]
                  rest == Drop(args, 2)
              IN IF args[1] = S_vw
                 THEN ThenEmit(emit(e, S_V \o pin_str, "vals", <<>>, rest, 0),
                               S_V \o S_star, "pin_vals", pin_str, rest, 0)
                 ELSE IF args[1] = S_vr
                 THEN ThenEmit(emit(e, S_readV \o pin_str, "none", <<>>, <<>>, 0),
                               S_readV \o S_star, "pin", pin_str, <<>>, 0)
                 ELSE e
         ELSE e
    ELSE IF cmd = MSG_INTERNAL
    THEN IF Len(args) > 0
         THEN emit(e, S_int \o args[1], "vals", <<>>, Drop(args, 1), 0)
         ELSE e
    ELSE e

\* the client-info message of line 295
ClientInfo(e) ==
    <<S_ver, VERSION, S_hbeat, IntToStr(heartbeat \div 1000),
      S_buffin, IntToStr(e.buffin), S_dev, S_cp>>

\* mutant: the id of a header is not validated
HeaderInvalid_LengthOnly(h, cap) == h.dlen < 0 \/ h.dlen > cap * 2

\* the basic validation of a header, lines 274-279
HeaderInvalid(h, cap) == h.msg_id = 0 \/ h.dlen < 0 \/ h.dlen > cap * 2

\* a response to the login, line 290
IsLoginResponse(e, h) == e.state = CONNECTING /\ h.msg_id = 1

\* mutant: the client-info message is not sent
LoginAccepted_NoInfo(e) ==
    emit([e EXCEPT !.state = CONNECTED], S_connected, "ping", <<>>, <<>>,
         e.now - e.lastSend)

\* the login was accepted, lines 292-298
LoginAccepted(e) ==
    LET connect_time == e.now - e.lastSend
    IN ThenEmit(Send([e EXCEPT !.state = CONNECTED], MSG_INTERNAL, ClientInfo(e), -1),
                S_connected, "ping", <<>>, <<>>, connect_time)

\* mutant: a refused login is only logged
LoginRefused_Stay(e) == Log(e, Mark("refused", e.state))

\* the login was refused, lines 300-304
LoginRefused(e) == disconnect(Log(e, Mark("refused", e.state)))

\* the while True loop of process, lines 266-353
RECURSIVE ProcessLoop(_)

\* back to the top of the loop, unless the message's handling raised
NextMessage(c) == IF c.exc # "none" THEN c ELSE ProcessLoop(c)

ProcessLoop(e0) ==
    IF Len(e0.bin) < 5 THEN e0
    ELSE
      LET h == UnpackHdr(Take(e0.bin, 5))
          e == Log(e0, FrameEntry("header", h.cmd, h.msg_id, h.dlen,
                                  <<>>, e0.state, <<>>))
      IN IF HeaderInvalid(h, e.buffin)
         THEN disconnect(Log(e, FrameEntry("invalid", h.cmd, h.msg_id, h.dlen,
                                           <<>>, e.state, <<>>)))
         ELSE
           LET e1 == [e EXCEPT !.lastRecv = e.now]
           IN IF h.cmd = MSG_RSP
              THEN
                LET e2 == Log([e1 EXCEPT !.bin = Drop(@, 5)],
                              FrameEntry("decode", h.cmd, h.msg_id, h.dlen,
                                         <<>>, e.state, <<>>))
                IN IF IsLoginResponse(e2, h)
                   THEN IF h.dlen = STA_SUCCESS
                        THEN NextMessage(LoginAccepted(e2))
                        ELSE LoginRefused(e2)
                   ELSE ProcessLoop(e2)
              ELSE IF Len(e1.bin) < 5 + h.dlen THEN e1
              ELSE
                LET data == SubSeq(e1.bin, 6, 5 + h.dlen)
                    args == DecodeArgs(data)
                    e2 == Log([e1 EXCEPT !.bin = Drop(@, 5 + h.dlen)],
                              FrameEntry("decode", h.cmd, h.msg_id, h.dlen,
                                         args, e.state, <<>>))
                IN NextMessage(Dispatch(e2, h.cmd, h.msg_id, args))

\* the try block around the ping, lines 253-259
PingSent(s) ==
    IF s.exc # "none" THEN [s EXCEPT !.exc = "none"]
    ELSE [s EXCEPT !.lastPing = s.now]

\* BlynkProtocol.process(data); data = <<>> stands for None and for b""
process(e, data) ==
    IF e.state = DISCONNECTED THEN e
    ELSE IF TimedOut(e.now, e.lastRecv)
    THEN disconnect(Log(e, Mark("timeout", e.state)))
    ELSE
      ProcessLoop([(IF NeedPing(e.state, e.now, e.lastPing, e.lastSend, e.lastRecv)
                    THEN PingSent(Send(e, MSG_PING, <<>>, -1))
                    ELSE e)
                      EXCEPT !.bin = @ \o data])

(* ---------------- Blynk.connect, Blynk.run ---------------- *)
\* mutant: the message-id counter is not reset before the login
ProtocolConnect_KeepId(e) ==
    Send([e EXCEPT !.state = CONNECTING, !.lastRecv = e.now,
                   !.lastSend = 0, !.lastPing = 0, !.bin = <<>>],
         MSG_HW_LOGIN, <<auth>>, -1)

\* BlynkProtocol.connect, lines 213-223
ProtocolConnect(e) ==
    Send([e EXCEPT !.state = CONNECTING, !.msg_id = 1, !.lastRecv = e.now,
                   !.lastSend = 0, !.lastPing = 0, !.bin = <<>>],
         MSG_HW_LOGIN, <<auth>>, -1)

\* what the network does to a connection attempt
NetOutcomes == {"ok", "resolve_fails", "connect_fails", "no_memory"}

\* Blynk.connect, the end of the try block and its except clause
LoginSent(p) ==
    IF p.exc # "none"
    THEN [disconnect([p EXCEPT !.exc = "none"]) EXCEPT !.ret = "False"]
    ELSE [p EXCEPT !.ret = "True"]

\* mutant: connect does not wait for the retry interval
TooSoon_Never(e) == FALSE

\* Blynk.connect, line 399: the last attempt is less than the retry interval ago
TooSoon(e) == e.now - e.lca < connect_retry_interval

\* Blynk.connect
connect(e, net) ==
    IF e.state # DISCONNECTED THEN [e EXCEPT !.ret = "True"]
    ELSE IF TooSoon(e) THEN [e EXCEPT !.ret = "False"]
    ELSE
      LET e1 == Log([e EXCEPT !.lca = e.now, !.state = CONNECTING],
                    Mark("attempt", DISCONNECTED))
      IN CASE net = "resolve_fails" -> [disconnect(e1) EXCEPT !.ret = "False"]
           [] net = "connect_fails" ->
                [disconnect([e1 EXCEPT !.conn = TRUE]) EXCEPT !.ret = "False"]
           [] net = "no_memory" ->
                Raise(disconnect(e1), "MemoryError")
           [] OTHER ->
                LoginSent(ProtocolConnect(
                              Log([e1 EXCEPT !.conn = TRUE, !.fresh = TRUE],
                                  Mark("socket", CONNECTING))))

\* what recv_into does: bytes (possibly none), EAGAIN, or another OSError
RecvOutcomes == {"bytes", "again", "oserror"}

\* Blynk.run after the timers were handled by process(None), which returned p1
Receive(p1, rx, data) ==
    IF p1.exc # "none" THEN disconnect([p1 EXCEPT !.exc = "none"])
    ELSE IF p1.state = DISCONNECTED THEN p1
    ELSE IF ~p1.conn THEN p1
    ELSE IF rx = "oserror" THEN disconnect(Log(p1, Mark("recv_error", p1.state)))
    ELSE IF rx = "again" \/ Len(data) = 0 THEN p1
    ELSE ExceptDisconnect(process([p1 EXCEPT !.rcvd = Len(data)], data))

\* Blynk.run; rx is the outcome of recv_into, data the bytes it would deliver
run(e, net, rx, data) ==
    IF e.state = DISCONNECTED THEN [connect(e, net) EXCEPT !.ret = "None"]
    ELSE Receive(process(e, <<>>), rx, data)

(* ---------------- the environment ---------------- *)
\* The instants at which the clock is read: the engine is constructed at
\* StartTime, and the later readings sit on both sides of the thresholds.
StartTime == connect_retry_interval
TimePoints == {StartTime + d : d \in {0, heartbeat + (heartbeat \div 2),
                                      heartbeat + (heartbeat \div 2) + 1,
                                      connect_retry_interval}}

BuffinSet == {64, 1024}

S_1 == <<49>>
S_4 == <<52>>
HandlerKeys == {S_connected, S_disconnected, S_V \o S_1}
LifecycleKeys == {S_disconnected}

\* frames the peer may put on the wire
RspOk == PackHdr(MSG_RSP, 1, STA_SUCCESS)
RspBad == PackHdr(MSG_RSP, 1, STA_INVALID_TOKEN)
PingFrame == PackHdr(MSG_PING, 5, 0)
HwBody == Utf8Encode(JoinNul(<<S_vw, S_1>>))
HwVw == PackHdr(MSG_HW, 2, Len(HwBody)) \o HwBody
BadId == PackHdr(MSG_HW, 0, 0)
TooLong == PackHdr(MSG_HW, 7, 2049)
PeerFrames == {RspOk, RspBad, PingFrame, HwVw, BadId, TooLong}
TimingFrames == {RspOk, PingFrame}

\* the peer writes a burst of up to MaxBurst frames and then waits for the
\* engine to read and consume it
RECURSIVE Bursts(_, _)
Bursts(F, n) ==
    IF n = 0 THEN {<<>>}
    ELSE LET shorter == Bursts(F, n - 1)
         IN shorter \cup {b \o f : b \in shorter, f \in F}

\* the lengths recv_into may return when n bytes are pending: nothing, all
\* of them, or a cut inside a header or inside a body
ChunkCuts == {3, 7}
Chunks(n) == {0, n} \cup {k \in ChunkCuts : k < n}

(* ---------------- the object of blynk_client.Blynk ---------------- *)
\* blynk_client.Blynk.__init__, constructed at StartTime
ClientInit ==
    [sock |-> FALSE, msg_id |-> 1, connected |-> FALSE,
     virtual_pin_callbacks |-> <<>>,
     last_rcv_time |-> StartTime, last_ping_time |-> StartTime]

\* what the last call on the client was given and what it did
ClientCall(op, rx, log, r) == [op |-> op, rx |-> rx, log |-> log, ret |-> r]

(* ---------------- the object and one call on it ---------------- *)
Self(failAt) ==
    [state |-> state, msg_id |-> msg_id, lastRecv |-> lastRecv,
     lastSend |-> lastSend, lastPing |-> lastPing, bin |-> bin,
     callbacks |-> callbacks, conn |-> conn, lca |-> last_connect_attempt,
     buffin |-> buffin, now |-> now, out |-> <<>>, wn |-> 0,
     failAt |-> failAt, exc |-> "none", ret |-> "None", rcvd |-> 0,
     fresh |-> FALSE]

Call(op, data, failAt, arg) ==
    [op |-> op, pre |-> state, data |-> data, failAt |-> failAt, arg |-> arg]

\* the write that was refused in the call that returned r (0: none was)
Refused(r) == IF r.wn >= r.failAt THEN r.failAt ELSE 0

\* the fields after the call that returned r; the bytes in flight are lost
\* with the socket they were sent to
Commit(r, c) ==
    /\ state' = r.state
    /\ msg_id' = r.msg_id
    /\ lastRecv' = r.lastRecv
    /\ lastSend' = r.lastSend
    /\ lastPing' = r.lastPing
    /\ bin' = r.bin
    /\ callbacks' = r.callbacks
    /\ conn' = r.conn
    /\ last_connect_attempt' = r.lca
    /\ out' = r.out
    /\ ret' = IF r.exc # "none" THEN "raised" ELSE r.ret
    /\ wire' = IF r.fresh \/ ~r.conn THEN <<>> ELSE Drop(wire, r.rcvd)
    /\ call' = c
    /\ UNCHANGED <<buffin, now, client, cout>>

Init ==
    /\ state = DISCONNECTED
    /\ msg_id = 1
    /\ lastRecv = 0
    /\ lastSend = 0
    /\ lastPing = 0
    /\ bin = <<>>
    /\ callbacks = <<>>
    /\ conn = FALSE
    /\ last_connect_attempt = 0
    /\ buffin \in BuffinSet
    /\ now = StartTime
    /\ wire = <<>>
    /\ out = <<>>
    /\ call = Call("init", <<>>, 0, "")
    /\ ret = "None"
    /\ client = ClientInit
    /\ cout = ClientCall("init", <<>>, <<>>, "None")

(* ---------------- actions ---------------- *)
\* out, call and ret describe the call just made; a step of the
\* environment is not a call
Idle ==
    /\ out' = <<>>
    /\ call' = Call("idle", <<>>, 0, "")
    /\ ret' = "None"
    /\ UNCHANGED <<client, cout>>

\* time.monotonic() moves on
Tick ==
    /\ \E t \in TimePoints : t > now /\ now' = t
    /\ Idle
    /\ UNCHANGED <<state, msg_id, lastRecv, lastSend, lastPing, bin, callbacks,
                   conn, last_connect_attempt, buffin, wire>>

\* the peer writes frames of F to the connection
PeerSendOf(F) ==
    /\ conn
    /\ wire = <<>>
    /\ bin = <<>>
    /\ \E b \in Bursts(F, MaxBurst) \ {<<>>} : wire' = b
    /\ Idle
    /\ UNCHANGED <<state, msg_id, lastRecv, lastSend, lastPing, bin, callbacks,
                   conn, last_connect_attempt, buffin, now>>

PeerSend == PeerSendOf(PeerFrames)
PeerSendT == PeerSendOf(TimingFrames)

\* BlynkProtocol.on(evt, func) for an event key of K
OnOf(K) ==
    /\ \E k \in K, b \in Behaviours :
          /\ Cardinality(DOMAIN callbacks \cup {k}) <= MaxHandlers
          /\ callbacks' = [x \in DOMAIN callbacks \cup {k} |->
                              IF x = k THEN b ELSE callbacks[x]]
    /\ Idle
    /\ UNCHANGED <<state, msg_id, lastRecv, lastSend, lastPing, bin,
                   conn, last_connect_attempt, buffin, now, wire>>

On == OnOf(HandlerKeys)
OnLifecycle == OnOf(LifecycleKeys)

\* whether Blynk.connect would try now: disconnected and the retry interval over
Attempting ==
    state = DISCONNECTED /\ now - last_connect_attempt >= connect_retry_interval

Connect ==
    \E net \in NetOutcomes, failAt \in 0..MaxFailAt :
        /\ (~Attempting => net = "ok")
        /\ \E r \in {connect(Self(failAt), net)} :
              /\ failAt = Refused(r)
              /\ Commit(r, Call("connect", <<>>, failAt, net))

Disconnect ==
    Commit(disconnect(Self(0)), Call("disconnect", <<>>, 0, ""))

Run ==
    \E net \in NetOutcomes, rx \in RecvOutcomes, k \in Chunks(Len(wire)),
       failAt \in 0..MaxFailAt :
        /\ (rx # "bytes" => k = 0)
        /\ (~Attempting => net = "ok")
        /\ (state = DISCONNECTED => rx = "again")
        /\ \E data \in {IF rx = "bytes" THEN Take(wire, k) ELSE <<>>} :
           \E r \in {run(Self(failAt), net, rx, data)} :
              /\ failAt = Refused(r)
              /\ Commit(r, Call("run", data, failAt,
                                IF state = DISCONNECTED THEN net ELSE rx))

\* process(data) called by a driver that read the bytes itself
Process ==
    \E k \in Chunks(Len(wire)), failAt \in 0..MaxFailAt :
        /\ state # DISCONNECTED
        /\ \E r \in {process(Self(failAt), Take(wire, k))} :
              /\ failAt = Refused(r)
              /\ Commit([r EXCEPT !.rcvd = k],
                        Call("process", Take(wire, k), failAt, ""))

\* the outbound operations, each one _send
Outbound(op, cmd, args) ==
    \E failAt \in 0..MaxFailAt :
        /\ state = DISCONNECTED \/ msg_id < MaxMsgId
        /\ \E r \in {Send(Self(failAt), cmd, args, -1)} :
              /\ failAt = Refused(r)
              /\ Commit(r, Call(op, <<>>, failAt, ""))

VirtualWrite == Outbound("virtual_write", MSG_HW, <<S_vw, S_1, S_4>>)
SetProperty == Outbound("set_property", MSG_PROPERTY, <<S_1, S_dev, S_4>>)
SyncVirtual == Outbound("sync_virtual", MSG_HW_SYNC, <<S_vr, S_1>>)
Notify == Outbound("notify", MSG_NOTIFY, <<S_cp>>)
Tweet == Outbound("tweet", MSG_TWEET, <<S_cp>>)
LogEvent == \E descr \in {<<>>, <<S_dev>>} :
                Outbound("log_event", MSG_EVENT_LOG, <<S_cp>> \o descr)

Next == PeerSend \/ On \/ Connect \/ Run \/ Process

\* the handshake and the dispatch of frames, at a fixed clock reading
Spec == Init /\ [][Next]_vars

NextTimers == Tick \/ PeerSendT \/ Connect \/ Run \/ Process

\* the heartbeat, with the clock moving
SpecTimers == Init /\ [][NextTimers]_vars

NextOutbound ==
    \/ PeerSendT
    \/ OnLifecycle
    \/ Connect
    \/ Disconnect
    \/ Run
    \/ VirtualWrite
    \/ SetProperty
    \/ SyncVirtual
    \/ Notify
    \/ Tweet
    \/ LogEvent

\* the outbound operations and disconnect, at a fixed clock reading
SpecOutbound == Init /\ [][NextOutbound]_vars

(* ---------------- reading the log of the last call ---------------- *)
IsEmit(i, key) == out[i].t = "emit" /\ out[i].key = key

\* the entries a frame caused: from its header to the next header
NextHeader(i) ==
    IF \E j \in DOMAIN out : j > i /\ out[j].t = "header"
    THEN CHOOSE j \in DOMAIN out :
             /\ j > i
             /\ out[j].t = "header"
             /\ \A k \in DOMAIN out : (k > i /\ out[k].t = "header") => j <= k
    ELSE Len(out) + 1

Segment(i) == (i + 1)..(NextHeader(i) - 1)

OutboundOps == {"virtual_write", "set_property", "sync_virtual", "notify",
                "tweet", "log_event"}

(* ---------------- C1 ---------------- *)
LoginOkAt(i) ==
    /\ out[i].t = "decode"
    /\ out[i].cmd = MSG_RSP
    /\ out[i].id = 1
    /\ out[i].n = STA_SUCCESS
    /\ out[i].st = CONNECTING

ClientInfoText ==
    <<S_ver, VERSION, S_hbeat, IntToStr(HeartbeatSec), S_buffin, IntToStr(buffin),
      S_dev, S_cp>>

HandshakeDone(i, needAccepted) ==
    LET seg == Segment(i)
        sends == {j \in seg : out[j].t = "send"}
        refused == {j \in seg : out[j].t = "fail"}
        conns == {j \in seg : IsEmit(j, S_connected)}
    IN (needAccepted => refused = {}) =>
         /\ Cardinality(sends) = 1
         /\ \A j \in sends :
               /\ out[j].cmd = MSG_INTERNAL
               /\ out[j].st = CONNECTED
               /\ DecodeArgs(Drop(out[j].bytes, 5)) = ClientInfoText
         /\ Cardinality(conns) = 1
         /\ \A j \in conns :
               /\ out[j].st = CONNECTED
               /\ \A k \in sends : k < j

LoginBadAt(i) ==
    /\ out[i].t = "decode"
    /\ out[i].cmd = MSG_RSP
    /\ out[i].id = 1
    /\ out[i].n # STA_SUCCESS
    /\ out[i].st = CONNECTING

\* C2: whenever a login response with id 1 and a status other than 200 is
\* decoded while Connecting, the call ends Disconnected, it emits no 'connected'
\* event, and it looks at no later frame.
C2_HandshakeFailure ==
    \A i \in DOMAIN out :
        LoginBadAt(i) =>
            /\ state = DISCONNECTED
            /\ \A j \in DOMAIN out : ~IsEmit(j, S_connected)
            /\ NextHeader(i) = Len(out) + 1

C2_Witness ==
    \E i \in DOMAIN out : LoginBadAt(i) /\ out[i].n = STA_INVALID_TOKEN

(* ---------------- C5 ---------------- *)
BadHeaderAt(i) ==
    /\ out[i].t = "header"
    /\ out[i].st \in {CONNECTING, CONNECTED}
    /\ (out[i].id = 0 \/ out[i].n > 2 * buffin)

\* C5: whenever process, Connecting or Connected, unpacks a header with id 0 or
\* with a length field above twice the buffer capacity, the call ends
\* Disconnected and everything after that header is the socket being closed
\* and the 'disconnected' event: no other event, no reply.
C5_MalformedHeader ==
    \A i \in DOMAIN out :
        BadHeaderAt(i) =>
            /\ state = DISCONNECTED
            /\ \A j \in DOMAIN out :
                  j > i => \/ out[j].t \in {"invalid", "close"}
                           \/ /\ out[j].t \in {"emit", "call"}
                              /\ out[j].key = S_disconnected

C5_Witness ==
    \E i \in DOMAIN out :
        /\ BadHeaderAt(i)
        /\ out[i].id = 0
        /\ out[i].st = CONNECTED
        /\ \E j \in DOMAIN out : j > i /\ IsEmit(j, S_disconnected)

(* ---------------- C8 ---------------- *)
\* C8: once the state is Disconnected, no further header is unpacked, no frame
\* is decoded and no event other than 'disconnected' is emitted in that call.
C8_Cancellation ==
    \A i \in DOMAIN out :
        out[i].st = DISCONNECTED =>
            /\ out[i].t \notin {"header", "decode"}
            /\ (out[i].t = "emit" => out[i].key = S_disconnected)

(* ---------------- C3 ---------------- *)
\* data is a concatenation of complete frames
RECURSIVE IsFrames(_)
IsFrames(d) ==
    IF Len(d) = 0 THEN TRUE
    ELSE IF Len(d) < 5 THEN FALSE
    ELSE LET h == UnpackHdr(Take(d, 5))
             n == IF h.cmd = MSG_RSP THEN 5 ELSE 5 + h.dlen
         IN Len(d) >= n /\ IsFrames(Drop(d, n))

\* process called once per chunk, by a driver that goes on after an exception;
\* the transport refuses the same write whatever the chunking
RECURSIVE Feed(_, _)
Feed(e, chunks) ==
    IF Len(chunks) = 0 THEN e
    ELSE Feed([process(e, Head(chunks)) EXCEPT !.exc = "none"], Tail(chunks))

IsEvent(x) == x.t \in {"emit", "send"}

\* the events emitted and the frames sent, in order
Events(log) ==
    LET ev == SelectSeq(log, IsEvent)
    IN [i \in DOMAIN ev |->
           [t |-> ev[i].t, key |-> ev[i].key, shape |-> ev[i].shape,
            pin |-> ev[i].pin, vals |-> ev[i].vals, n |-> ev[i].n,
            bytes |-> ev[i].bytes]]

Bytewise(d) == [i \in DOMAIN d |-> <<d[i]>>]

SameInAnyChunking(e, d, whole) ==
    /\ \A k \in 0..Len(d) :
          Events(Feed(e, <<Take(d, k), Drop(d, k)>>).out) = Events(whole)
    /\ Events(Feed(e, Bytewise(d)).out) = Events(whole)

\* C3: a process call on an empty buffer with a concatenation of complete
\* frames emits the events and sends the frames that the same bytes produce
\* when they are delivered in two calls split anywhere, or one byte per call.
C3_ChunkedReassembly ==
    [][(/\ call'.op = "process"
        /\ bin = <<>>
        /\ call'.data # <<>>
        /\ IsFrames(call'.data))
       => SameInAnyChunking(Self(call'.failAt), call'.data, out')]_vars

\* what is left of C3 when no write is refused and no handler disconnects or
\* raises: the chunking then makes no difference
QuietHandlers ==
    \A k \in DOMAIN callbacks : callbacks[k] \in {"ok", "legacy"}

ChunkedReassemblyQuiet ==
    [][(/\ call'.op = "process"
        /\ bin = <<>>
        /\ call'.data # <<>>
        /\ IsFrames(call'.data)
        /\ call'.failAt = 0
        /\ QuietHandlers)
       => SameInAnyChunking(Self(0), call'.data, out')]_vars

(* ---------------- C6 ---------------- *)
\* the registry with every handler that faults replaced by one that returns
Benign(cb) ==
    [k \in DOMAIN cb |-> IF cb[k] \in {"legacy", "raise"} THEN "ok" ELSE cb[k]]

HeaderCount(log) == Cardinality({i \in DOMAIN log : log[i].t = "header"})

\* the same call on the same object with the benign registry
AsIfReturned(c) ==
    LET e == [Self(c.failAt) EXCEPT !.callbacks = Benign(callbacks)]
    IN IF c.op = "run" THEN run(e, "ok", c.arg, c.data)
       ELSE process(e, c.data)

\* C6: when a handler raises during process or run, the state and the receive
\* buffer end as they would have had the handler returned, and as many
\* frames of the buffer are looked at.
C6_HandlerFaultIsolation ==
    [][(/\ call'.op \in {"run", "process"}
        /\ state # DISCONNECTED
        /\ \E i \in DOMAIN out' : out'[i].t = "call" /\ out'[i].res # "none")
       => LET r == AsIfReturned(call')
          IN /\ state' = r.state
             /\ bin' = r.bin
             /\ HeaderCount(out') = HeaderCount(r.out)]_vars

\* what the dispatcher does isolate: a TypeError
C6_TypeErrorIsolated ==
    [][(/\ call'.op \in {"run", "process"}
        /\ state # DISCONNECTED
        /\ \E i \in DOMAIN out' : out'[i].t = "call" /\ out'[i].res # "none"
        /\ \A i \in DOMAIN out' : out'[i].t = "call" => out'[i].res # "Exception")
       => LET r == AsIfReturned(call')
          IN /\ state' = r.state
             /\ bin' = r.bin
             /\ HeaderCount(out') = HeaderCount(r.out)]_vars

(* ---------------- C4 ---------------- *)
HasMark(log, t) == \E i \in DOMAIN log : log[i].t = t

EmitCount(log, key) ==
    Cardinality({i \in DOMAIN log : log[i].t = "emit" /\ log[i].key = key})

\* C4: a process call made Connecting or Connected at clock reading now, with
\* lastRecv = t0, disconnects for the heartbeat timeout exactly when
\* now - t0 exceeds one and a half heartbeat intervals; the call then ends
\* Disconnected, emits 'disconnected' once and looks at no frame.
C4_HeartbeatTimeout ==
    [][(call'.op \in {"run", "process"} /\ state # DISCONNECTED)
       => /\ HasMark(out', "timeout") <=> 2 * (now - lastRecv) > 3 * heartbeat
          /\ HasMark(out', "timeout") =>
                /\ state' = DISCONNECTED
                /\ EmitCount(out', S_disconnected) = 1
                /\ ~HasMark(out', "header")]_vars

C4_Witness ==
    /\ call.op = "run"
    /\ call.pre = CONNECTED
    /\ HasMark(out, "timeout")
    /\ state = DISCONNECTED

\* the other side of the threshold: a call exactly one and a half intervals
\* after the last receipt, which does not time out
C4_NotBefore ==
    /\ call.op \in {"run", "process"}
    /\ call.pre # DISCONNECTED
    /\ now = StartTime + heartbeat + (heartbeat \div 2)
    /\ ~HasMark(out, "timeout")
    /\ state # DISCONNECTED

(* ---------------- C7 ---------------- *)
\* C7: disconnect() from Connecting or Connected ends Disconnected with one
\* 'disconnected' event; disconnect() while Disconnected changes no field and
\* emits nothing; and no call emits 'disconnected' twice, a call in which the
\* transport refuses a write emitting it exactly once.
C7_DisconnectIdempotent ==
    [][/\ call'.op = "disconnect" =>
             IF state \in {CONNECTING, CONNECTED}
             THEN /\ state' = DISCONNECTED
                  /\ EmitCount(out', S_disconnected) = 1
             ELSE /\ UNCHANGED <<state, msg_id, lastRecv, lastSend, lastPing, bin,
                                 callbacks, conn, last_connect_attempt>>
                  /\ ~HasMark(out', "emit")
       /\ EmitCount(out', S_disconnected) <= 1
       /\ HasMark(out', "fail") =>
             /\ state' = DISCONNECTED
             /\ EmitCount(out', S_disconnected) = 1]_vars

C7_Witness ==
    /\ call.op \in OutboundOps
    /\ HasMark(out, "fail")
    /\ EmitCount(out, S_disconnected) = 1
    /\ state = DISCONNECTED

C7_WitnessNoop ==
    /\ call.op = "disconnect"
    /\ call.pre = DISCONNECTED
    /\ out = <<>>

(* ---------------- C9 ---------------- *)
\* C9: an outbound operation called while Disconnected writes nothing to the
\* transport and leaves the message-id counter, the timers, the buffer and the
\* state as they were.
C9_OutboundWhileDisconnected ==
    [][(call'.op \in OutboundOps /\ state = DISCONNECTED)
       => /\ UNCHANGED <<state, msg_id, lastRecv, lastSend, lastPing, bin>>
          /\ ~HasMark(out', "send")
          /\ ~HasMark(out', "fail")]_vars

C9_Witness ==
    /\ call.op \in OutboundOps
    /\ call.pre = DISCONNECTED
    /\ msg_id > 1

(* ---------------- C10 ---------------- *)
\* C10: when the transport refuses the write of an outbound operation, the
\* engine is Disconnected afterwards and the operation raises to its caller.
C10_SendFailureSurfaced ==
    (call.op \in OutboundOps /\ HasMark(out, "fail"))
        => (state = DISCONNECTED /\ ret = "raised")

\* the half of C10 the code keeps: the engine is Disconnected afterwards
C10_SendFailureDisconnects ==
    (call.op \in OutboundOps /\ HasMark(out, "fail")) => state = DISCONNECTED

(* ---------------- C11 ---------------- *)
InvalidTokenAt(i) == LoginBadAt(i) /\ out[i].n = STA_INVALID_TOKEN

\* the next run() on the object as it is now, made when the clock reads t
\* and with nothing to receive
LaterRun(t) == run([Self(0) EXCEPT !.now = t], "ok", "again", <<>>)

IsLoginFrame(x) == x.t \in {"send", "fail"} /\ x.cmd = MSG_HW_LOGIN

\* C11: once a login response with status 9 (invalid token) has left the
\* engine Disconnected, a later run() makes no connection attempt and sends
\* no login frame, however late it is called.
C11_InvalidTokenTerminal ==
    (state = DISCONNECTED /\ \E i \in DOMAIN out : InvalidTokenAt(i))
        => \A t \in TimePoints :
              t >= now =>
                  /\ ~HasMark(LaterRun(t).out, "attempt")
                  /\ \A j \in DOMAIN LaterRun(t).out : ~IsLoginFrame(LaterRun(t).out[j])

\* what the code does: the refusal is not remembered, and run() tries again
\* as soon as the retry interval is over
C11_RetriesAfterInterval ==
    (state = DISCONNECTED /\ \E i \in DOMAIN out : InvalidTokenAt(i))
        => \A t \in TimePoints :
              t >= now =>
                  (HasMark(LaterRun(t).out, "attempt")
                      <=> t - last_connect_attempt >= connect_retry_interval)

(* ---------------- C12 ---------------- *)
RspHeaderAt(i) ==
    /\ out[i].t = "header"
    /\ out[i].cmd = MSG_RSP
    /\ out[i].id # 0

\* the header unpacked at i was accepted as a response: the next thing the
\* call did was to consume it and read its length field as the status
AcceptedAsStatus(i) ==
    /\ i < Len(out)
    /\ out[i + 1].t = "decode"
    /\ out[i + 1].cmd = MSG_RSP
    /\ out[i + 1].id = out[i].id
    /\ out[i + 1].n = out[i].n

\* C12: a response frame with a non-zero id at the front of the buffer is
\* accepted whatever its status and whatever the buffer capacity: its five
\* bytes are consumed and its length field is read as a status, never bounded
\* like a body length.
C12_ResponseStatusNotLength ==
    \A i \in DOMAIN out : RspHeaderAt(i) => AcceptedAsStatus(i)

\* what the code does: the status is accepted when it is at most twice the
\* buffer capacity and rejected like an oversized body otherwise
C12_StatusBoundedByCapacity ==
    \A i \in DOMAIN out :
        RspHeaderAt(i) =>
            IF out[i].n <= 2 * buffin
            THEN AcceptedAsStatus(i)
            ELSE i < Len(out) /\ out[i + 1].t = "invalid"

(* ---------------- C13 ---------------- *)
\* C13: a disconnect() that takes the engine from Connecting or Connected to
\* Disconnected leaves the receive buffer empty and the timers lastRecv,
\* lastSend and lastPing cleared, and the callback registry as it was.
C13_DisconnectResets ==
    [][(call'.op = "disconnect" /\ state \in {CONNECTING, CONNECTED})
       => /\ state' = DISCONNECTED
          /\ bin' = <<>>
          /\ lastRecv' = 0
          /\ lastSend' = 0
          /\ lastPing' = 0
          /\ callbacks' = callbacks]_vars

\* what the code does: disconnect() closes the socket and sets the state, and
\* touches neither the buffer nor the timers nor the registry
C13_DisconnectKeepsData ==
    [][(call'.op = "disconnect" /\ state \in {CONNECTING, CONNECTED})
       => /\ state' = DISCONNECTED
          /\ ~conn'
          /\ UNCHANGED <<bin, lastRecv, lastSend, lastPing, msg_id, callbacks>>]_vars

(* ---------------- C14 ---------------- *)
\* a connect() on the object as it is now, made when the clock reads t, the
\* network letting it through and the write numbered failAt being refused
LaterConnect(t, failAt) == connect([Self(failAt) EXCEPT !.now = t], "ok")

Sends(log) == {j \in DOMAIN log : log[j].t = "send"}

\* Connecting, the buffer empty, and one frame written: the login with id 1
\* and the raw token as its body
LoginStarted(st, buf, log) ==
    /\ st = CONNECTING
    /\ buf = <<>>
    /\ Cardinality(Sends(log)) = 1
    /\ \A j \in Sends(log) :
          /\ log[j].cmd = MSG_HW_LOGIN
          /\ log[j].id = 1
          /\ UnpackHdr(Take(log[j].bytes, 5)).msg_id = 1
          /\ Drop(log[j].bytes, 5) = Utf8Encode(auth)

ReachedLogin(log) == HasMark(log, "socket")

\* the connect() just made, and the connect() that would be made next from
\* here, whatever the counter and the buffer hold
ConnectSendsLogin(F) ==
    /\ (call.op \in {"connect", "run"} /\ ReachedLogin(out)
            /\ (HasMark(out, "fail") => 1 \in F))
          => LoginStarted(state, bin, out)
    /\ state = DISCONNECTED
          => \A t \in TimePoints, failAt \in F :
                (t >= now /\ t - last_connect_attempt >= connect_retry_interval)
                   => LoginStarted(LaterConnect(t, failAt).state,
                                   LaterConnect(t, failAt).bin,
                                   LaterConnect(t, failAt).out)

C14_WitnessFirst ==
    /\ call.op = "connect"
    /\ call.pre = DISCONNECTED
    /\ ReachedLogin(out)
    /\ state = CONNECTING

(* ---------------- C15 ---------------- *)
Prefix(p, k) == Len(k) >= Len(p) /\ Take(k, Len(p)) = p

IsPinEmit(x) == x.t = "emit" /\ (Prefix(S_V, x.key) \/ Prefix(S_readV, x.key))

\* a decoded hardware or bridge frame that writes or reads a virtual pin
PinFrameAt(i) ==
    /\ out[i].t = "decode"
    /\ out[i].cmd \in {MSG_HW, MSG_BRIDGE}
    /\ Len(out[i].vals) > 1
    /\ out[i].vals[1] \in {S_vw, S_vr}

\* among the entries I of log, the pin events are exactly two: the event of
\* the pin itself and then the wildcard event
DispatchedInOrder(log, I, args) ==
    LET E == {j \in I : IsPinEmit(log[j])}
        base == IF args[1] = S_vw THEN S_V ELSE S_readV
        rest == IF args[1] = S_vw THEN Drop(args, 2) ELSE <<>>
    IN \E a \in E, b \in E :
          /\ a < b
          /\ E = {a, b}
          /\ log[a].key = base \o args[2]
          /\ log[a].vals = rest
          /\ log[b].key = base \o S_star
          /\ log[b].pin = args[2]
          /\ log[b].vals = rest

HandlerRaised(log, I) == \E j \in I : log[j].t = "call" /\ log[j].res = "Exception"

\* C15: for every decoded frame ['vw', p, v...] the call emits 'V'+p with the
\* values and then 'V*' with p and the values, and for ['vr', p] 'readV'+p and
\* then 'readV*'; no other pin event is emitted for the frame, and the wildcard
\* is emitted also when the handler of the pin is absent or faults.
C15_PinDispatchOrder ==
    \A i \in DOMAIN out :
        PinFrameAt(i) => DispatchedInOrder(out, Segment(i), out[i].vals)

\* the dispatch of a read request ['vr', '1'] on the object as it is now
ReadRequest == Dispatch(Self(0), MSG_HW, 2, <<S_vr, S_1>>)

\* what the code does: the order holds unless a handler of the frame raised
\* something that emit does not catch
C15_UnlessHandlerRaises ==
    /\ \A i \in DOMAIN out :
          (PinFrameAt(i) /\ ~HandlerRaised(out, Segment(i)))
              => DispatchedInOrder(out, Segment(i), out[i].vals)
    /\ state = CONNECTED
          => DispatchedInOrder(ReadRequest.out, DOMAIN ReadRequest.out, <<S_vr, S_1>>)

(* ---------------- C16 ---------------- *)
\* clock readings from now on, one of them within a heartbeat interval
LaterTimes == {t \in TimePoints \cup {now + (heartbeat \div 2)} : t >= now}

\* process(None) on the object as it is now, made when the clock reads t
TimerOnly(t) == process([Self(0) EXCEPT !.now = t], <<>>)

\* neither the timeout nor the probe condition holds at t
QuietAt(t) ==
    /\ 2 * (t - lastRecv) <= 3 * heartbeat
    /\ ~(/\ state = CONNECTED
         /\ 10 * (t - lastPing) > heartbeat
         /\ (t - lastSend > heartbeat \/ t - lastRecv > heartbeat))

\* the buffer holds less than a header
BelowHeader == Len(bin) < 5

\* the buffer holds a well-formed header of a frame whose body is not all there
BodyPending ==
    /\ Len(bin) >= 5
    /\ UnpackHdr(Take(bin, 5)).cmd # MSG_RSP
    /\ UnpackHdr(Take(bin, 5)).msg_id # 0
    /\ UnpackHdr(Take(bin, 5)).dlen <= 2 * buffin
    /\ Len(bin) < 5 + UnpackHdr(Take(bin, 5)).dlen

Silent(log) == \A j \in DOMAIN log : log[j].t \notin {"emit", "send", "fail", "call"}

NothingChanged(r, withLastRecv) ==
    /\ r.state = state
    /\ r.bin = bin
    /\ withLastRecv => r.lastRecv = lastRecv
    /\ r.lastSend = lastSend
    /\ r.lastPing = lastPing
    /\ r.exc = "none"
    /\ Silent(r.out)

\* C16: when neither the timeout nor the probe condition holds and the buffer
\* is empty or holds only an incomplete frame, process(None) leaves the state,
\* the buffer and the timers lastRecv, lastSend and lastPing as they were and
\* emits and sends nothing.
C16_ProcessNoneNoop ==
    \A t \in LaterTimes :
        (QuietAt(t) /\ (BelowHeader \/ BodyPending))
            => NothingChanged(TimerOnly(t), TRUE)

\* what the code does: below a header nothing changes; with a header in the
\* buffer and its body pending, every call sets lastRecv to the clock again
C16_HeaderRefreshesLastRecv ==
    \A t \in LaterTimes :
        /\ (QuietAt(t) /\ BelowHeader) => NothingChanged(TimerOnly(t), TRUE)
        /\ (QuietAt(t) /\ BodyPending /\ state # DISCONNECTED)
              => /\ NothingChanged(TimerOnly(t), FALSE)
                 /\ TimerOnly(t).lastRecv = t

(* ---------------- C17 ---------------- *)
Written(log, cmds) == \E j \in DOMAIN log : log[j].t = "send" /\ log[j].cmd \in cmds

Attempted(log, cmds) ==
    \E j \in DOMAIN log : log[j].t \in {"send", "fail"} /\ log[j].cmd \in cmds

AllCommands == 0..255

\* C17: in a call on a connection (Connecting or Connected), lastSend changes
\* only when a frame was written to the transport and lastPing only when a ping
\* frame was written; a send that the transport refuses leaves both as they
\* were.
C17_TimerUpdatePoints ==
    [][state # DISCONNECTED
       => /\ lastSend' # lastSend => Written(out', AllCommands)
          /\ lastPing' # lastPing => Written(out', {MSG_PING})]_vars

\* what the code does: lastSend is set before the write is tried, and lastPing
\* after _send returned, which it does also when the write was refused
C17_TimersFollowAttempts ==
    [][state # DISCONNECTED
       => /\ lastSend' # lastSend => Attempted(out', AllCommands)
          /\ lastPing' # lastPing => Attempted(out', {MSG_PING})
          /\ HasMark(out', "fail") => lastSend' = now
          /\ (\E j \in DOMAIN out' : out'[j].t = "fail" /\ out'[j].cmd = MSG_PING)
                => lastPing' = now]_vars

(* ---------------- C18 ---------------- *)
PingCount(log) ==
    Cardinality({j \in DOMAIN log : log[j].t \in {"send", "fail"} /\ log[j].cmd = MSG_PING})

\* C18: a process call made Connecting or Connected that does not time out
\* issues a ping exactly when the state is Connected, more than a tenth of the
\* heartbeat interval has passed since lastPing, and more than an interval has
\* passed since lastSend or since lastRecv; it issues one ping then and
\* lastPing becomes the clock reading; it issues none while Connecting.
C18_ProbeCondition ==
    [][(call'.op \in {"run", "process"} /\ state # DISCONNECTED
            /\ ~HasMark(out', "timeout"))
       => /\ PingCount(out') > 0
                <=> /\ state = CONNECTED
                    /\ 10 * (now - lastPing) > heartbeat
                    /\ (now - lastSend > heartbeat \/ now - lastRecv > heartbeat)
          /\ PingCount(out') > 0 => (PingCount(out') = 1 /\ lastPing' = now)
          /\ PingCount(out') = 0 => lastPing' = lastPing]_vars

\* a ping was written by a call made Connected
C18_Witness ==
    /\ call.op \in {"run", "process"}
    /\ call.pre = CONNECTED
    /\ Written(out, {MSG_PING})
    /\ lastPing = now
    /\ state = CONNECTED

\* a call made Connected right after a ping, with nothing received for more
\* than an interval: no second ping
C18_WitnessGap ==
    /\ call.op \in {"run", "process"}
    /\ call.pre = CONNECTED
    /\ lastPing = now
    /\ now - lastRecv > heartbeat
    /\ PingCount(out) = 0
    /\ ~HasMark(out, "timeout")

(* ---------------- C19 ---------------- *)
PingAt(i) == out[i].t = "decode" /\ out[i].cmd = MSG_PING

\* the writes of a response tried between the decoding at i and the next header
Replies(i, kinds) ==
    {j \in Segment(i) : out[j].t \in kinds /\ out[j].cmd = MSG_RSP}

\* one response, with the id of the ping, status 200 and no body
Answered(i, kinds) ==
    /\ Cardinality(Replies(i, kinds)) = 1
    /\ \A j \in Replies(i, kinds) :
          /\ Len(out[j].bytes) = 5
          /\ UnpackHdr(out[j].bytes).cmd = MSG_RSP
          /\ UnpackHdr(out[j].bytes).msg_id = out[i].id
          /\ UnpackHdr(out[j].bytes).dlen = 200

\* the answer to a ping with id 5 on the object as it is now
PingAnswer(failAt) == Dispatch(Self(failAt), MSG_PING, 5, <<>>)

\* C19: every ping frame received is answered, before the next buffered frame
\* is handled, with exactly one response frame that carries the id of the ping,
\* status 200 and no body, and the answer does not advance the message-id
\* counter. (Calls in which the transport refused a write are left aside.)
C19_PingReply ==
    /\ \A i \in DOMAIN out :
          (PingAt(i) /\ ~HasMark(out, "fail")) => Answered(i, {"send"})
    /\ \A failAt \in 0..MaxFailAt : PingAnswer(failAt).msg_id = msg_id

\* what the code does: a ping decoded while Connecting or Connected is
\* answered so; one decoded after the call has disconnected is not answered
C19_PingReplyOnConnection ==
    /\ \A i \in DOMAIN out :
          PingAt(i) =>
              IF out[i].st # DISCONNECTED
              THEN Answered(i, {"send", "fail"})
              ELSE Replies(i, {"send", "fail"}) = {}
    /\ \A failAt \in 0..MaxFailAt : PingAnswer(failAt).msg_id = msg_id

\* a ping decoded after a handler disconnected, in a call with no refused write
C19_UnansweredAfterDisconnect ==
    \E i \in DOMAIN out :
        /\ PingAt(i)
        /\ out[i].st = DISCONNECTED
        /\ ~HasMark(out, "fail")
        /\ Replies(i, {"send", "fail"}) = {}

(* ---------------- C20 ---------------- *)
\* texts a field may hold: empty, code points of one and two bytes, of three
\* and four bytes, and one with a NUL character inside
Texts == {<<>>, <<65, 233>>, <<8364, 128512>>, <<65, 0, 66>>}

FieldLists(n) == UNION {[1..k -> Texts] : k \in 0..n}

FrameCommands == {MSG_PING, MSG_HW, MSG_INTERNAL}

FrameIds == {1, MaxId16}

\* the bytes of the last write of the call that returned s
LastWritten(s) == s.out[Len(s.out)].bytes

\* the peer sends the response that accepts the login
PeerAccepts == PeerSendOf({RspOk})

\* the frame _send makes of (cmd, id, fields) comes back to process
RoundTrip ==
    /\ state = CONNECTED
    /\ bin = <<>>
    /\ wire = <<>>
    /\ \E cmd \in FrameCommands, id \in FrameIds, fields \in FieldLists(MaxFields) :
       \E s \in {Send(Log(Self(0), Entry("encode", <<>>, "", <<>>, fields, cmd, id,
                                         0, state, <<>>, "")),
                      cmd, fields, id)} :
       \E r \in {process(s, LastWritten(s))} :
          Commit(r, Call("roundtrip", LastWritten(s), 0, ""))

NextFraming == Connect \/ PeerAccepts \/ Run \/ RoundTrip

\* the encoder and the decoder, one after the other
SpecFraming == Init /\ [][NextFraming]_vars

Decodes == {j \in DOMAIN out : out[j].t = "decode"}

\* the frame that was encoded was decoded as what it was made of, and the
\* buffer is empty again
CameBack ==
    /\ Cardinality(Decodes) = 1
    /\ \A j \in Decodes :
          /\ out[j].cmd = out[1].cmd
          /\ out[j].id = out[1].id
          /\ out[j].vals = out[1].vals
          /\ 5 + out[j].n = Len(call.data)
    /\ bin = <<>>

NoNul(s) == \A i \in DOMAIN s : s[i] # 0

\* C20 as stated: for every command other than response and login, every id
\* and every list of text fields, the empty list included, the frame _send
\* makes is decoded by process into the same command, id and fields, and
\* 5 + body length bytes are consumed.
C20_FramingRoundTrip_Original ==
    call.op = "roundtrip" => CameBack

\* C20 as amended: the same for every list of at least one field, none of
\* which contains a NUL character.
C20_FramingRoundTrip ==
    (/\ call.op = "roundtrip"
     /\ Len(out[1].vals) > 0
     /\ \A k \in DOMAIN out[1].vals : NoNul(out[1].vals[k]))
        => CameBack

\* a frame of two fields came back, one of multi-byte code points and one empty, with
\* the largest id
C20_Witness ==
    /\ call.op = "roundtrip"
    /\ out[1].vals = << <<8364, 128512>>, <<>> >>
    /\ out[1].id = MaxId16
    /\ CameBack

\* what the code does with the empty list: it comes back as one empty field
C20_EmptyListComesBackAsOne ==
    (call.op = "roundtrip" /\ out[1].vals = <<>>)
        => \A j \in Decodes : out[j].vals = << <<>> >>

(* ---------------- C21 ---------------- *)
IsClose(x) == x.t = "close"

\* the call opened a socket: connect() got past the address resolution
OpensSocket(c) == c.op \in {"connect", "run"} /\ c.arg \in {"ok", "connect_fails"}

\* the socket is closed while the state is not yet Disconnected, and before
\* the event; holding says whether the engine held or opened a socket
ClosedFirst(log, holding) ==
    \A i \in DOMAIN log :
        /\ (IsClose(log[i]) => log[i].st # DISCONNECTED)
        /\ (log[i].t = "emit" /\ log[i].key = S_disconnected) =>
              /\ log[i].st = DISCONNECTED
              /\ holding => \E j \in 1..(i - 1) : IsClose(log[j])
              /\ \A j \in DOMAIN log : j > i => ~IsClose(log[j])

\* C21: after every public call, state Disconnected implies that the engine
\* holds no socket; and whenever a call disconnects, the socket it held or
\* opened is closed before the state is set to Disconnected and before
\* 'disconnected' is emitted, also when connect() fails part-way.
C21_TransportRelease ==
    [][/\ state' = DISCONNECTED => ~conn'
       /\ ClosedFirst(out', conn \/ (HasMark(out', "attempt") /\ OpensSocket(call')))
      ]_vars

\* connect() failed after the socket was created, and released it
C21_Witness ==
    /\ call.op = "connect"
    /\ call.arg = "connect_fails"
    /\ state = DISCONNECTED
    /\ ~conn
    /\ \E i \in DOMAIN out : IsClose(out[i]) /\ out[i].st = CONNECTING
    /\ \E i \in DOMAIN out : IsEmit(i, S_disconnected)

\* the login write was refused: the socket is closed by _write
C21_WitnessWrite ==
    /\ call.op = "connect"
    /\ call.failAt = 1
    /\ state = DISCONNECTED
    /\ ~conn
    /\ \E i \in DOMAIN out : IsClose(out[i])

(* ---------------- C22 ---------------- *)
\* an event of a pin or an internal event, or the reply to a peer's ping
IsDispatch(x) ==
    \/ x.t = "emit" /\ (IsPinEmit(x) \/ Prefix(S_int, x.key))
    \/ x.t \in {"send", "fail"} /\ x.cmd = MSG_RSP

\* C22: pin events and internal events are emitted, and pings of the peer
\* are answered, only in state Connected; a frame that arrives while the
\* engine is Connecting causes no event and no reply.
C22_DispatchOnlyConnected ==
    \A i \in DOMAIN out : IsDispatch(out[i]) => out[i].st = CONNECTED

\* a frame with a body decoded while Connecting
EarlyFrameAt(i) ==
    /\ out[i].t = "decode"
    /\ out[i].st = CONNECTING
    /\ out[i].cmd \in {MSG_PING, MSG_HW}

\* what the code does: a ping or a virtual write decoded while Connecting is
\* dispatched like any other, still in state Connecting
C22_DispatchedWhileConnecting ==
    \A i \in DOMAIN out :
        EarlyFrameAt(i) =>
            /\ i + 1 \in DOMAIN out
            /\ IsDispatch(out[i + 1])
            /\ out[i + 1].st = CONNECTING

C22_EarlyFrameReached ==
    \E i \in DOMAIN out : EarlyFrameAt(i) /\ out[i].cmd = MSG_HW /\ state = CONNECTING

(* ---------------- blynk_client.Blynk ---------------- *)
MaxClientMsgId == 5

ClientBufSize == 1024
S_2 == <<50>>
S_200 == IntToStr(STA_SUCCESS)

\* the heartbeat interval of the client, in the unit of the clock
client_heartbeat == heartbeat

\* the object during a call: its fields, the clock, the log of the call, the
\* exception in flight, and which send the socket refuses
ClientSelf(failAt) ==
    [sock |-> client.sock, msg_id |-> client.msg_id,
     connected |-> client.connected,
     virtual_pin_callbacks |-> client.virtual_pin_callbacks,
     last_rcv_time |-> client.last_rcv_time,
     last_ping_time |-> client.last_ping_time,
     now |-> now, out |-> <<>>, exc |-> "none", wn |-> 0, failAt |-> failAt,
     msg |-> <<>>, got |-> <<>>]

ClientEntry(t, cmd, pin, vals, arg, bytes) ==
    [t |-> t, cmd |-> cmd, pin |-> pin, vals |-> vals, arg |-> arg, bytes |-> bytes]

\* _get_msg_id: the counter is advanced first, and its new value returned
ClientGetMsgId(m) == IF m + 1 > MaxId16 THEN 1 ELSE m + 1

\* _pack_msg: the frame is left in the field msg
ClientPackMsg(c, msg_type, args) ==
    [c EXCEPT !.msg_id = ClientGetMsgId(@),
              !.msg = PackHdr(msg_type, ClientGetMsgId(c.msg_id),
                              Len(Utf8Encode(JoinNul(args))))
                      \o Utf8Encode(JoinNul(args))]

\* _send of the frame that _pack_msg built
ClientSend(p, cmd) ==
    IF ~p.sock THEN [p EXCEPT !.exc = "AttributeError"]
    ELSE IF p.wn + 1 = p.failAt
    THEN [p EXCEPT !.wn = @ + 1, !.exc = "OSError",
                   !.out = Append(@, ClientEntry("fail", cmd, <<>>, <<>>, <<>>, p.msg))]
    ELSE [p EXCEPT !.wn = @ + 1,
                   !.out = Append(@, ClientEntry("send", cmd, <<>>, <<>>, <<>>, p.msg))]

\* what the server does to a connection attempt of the client
ClientNetOutcomes == {"ok", "refused", "silent", "connect_fails"}

\* connect, lines 60-69, after the login was sent
ClientAuthenticated(s, net) ==
    IF s.exc # "none" THEN [s EXCEPT !.exc = "BlynkError"]
    ELSE IF net = "ok" THEN [s EXCEPT !.connected = TRUE]
    ELSE [s EXCEPT !.exc = "BlynkError"]

\* blynk_client.Blynk.connect
ClientConnectOp(c, net) ==
    IF net = "connect_fails" THEN [c EXCEPT !.sock = TRUE, !.exc = "BlynkError"]
    ELSE ClientAuthenticated(
             ClientSend(ClientPackMsg([c EXCEPT !.sock = TRUE], MSG_LOGIN, <<auth>>),
                        MSG_LOGIN),
             net)

\* virtual_write(pin, value)
ClientVirtualWriteOp(c, pin, value) ==
    IF ~c.connected THEN [c EXCEPT !.exc = "BlynkError"]
    ELSE ClientSend(ClientPackMsg(c, MSG_HW, <<S_vw, pin, value>>), MSG_HW)

\* _handle_heartbeat
ClientPinged(s) == IF s.exc # "none" THEN s ELSE [s EXCEPT !.last_ping_time = s.now]

ClientHandleHeartbeat(c) ==
    IF c.now - c.last_ping_time > client_heartbeat
    THEN ClientPinged(ClientSend(ClientPackMsg(c, MSG_PING, <<>>), MSG_PING))
    ELSE c

\* buf[a:b] of the zero-filled buffer that recv_into wrote rx into
BufSlice(rx, a, b) ==
    LET hi == IF b > ClientBufSize THEN ClientBufSize ELSE b
    IN [i \in 1..(IF hi > a THEN hi - a ELSE 0) |->
           IF a + i <= Len(rx) THEN rx[a + i] ELSE 0]

\* data[a:b] of a bytes object
Slice(data, a, b) ==
    LET hi == IF b > Len(data) THEN Len(data) ELSE b
    IN IF hi > a THEN SubSeq(data, a + 1, hi) ELSE <<>>

\* str.split("\0") of decoded text
RECURSIVE SplitText(_)
SplitText(s) ==
    IF \A i \in 1..Len(s) : s[i] # 0 THEN <<s>>
    ELSE LET k == CHOOSE i \in 1..Len(s) :
                      s[i] = 0 /\ \A j \in 1..(i - 1) : s[j] # 0
         IN <<SubSeq(s, 1, k - 1)>> \o SplitText(SubSeq(s, k + 1, Len(s)))

\* _handle_virtual_write(pin, values): the callback is given the tuple of
\* the extra positional arguments, whose one element is the list of values
ClientHandleVirtualWrite(c, pin, values) ==
    IF pin \in DOMAIN c.virtual_pin_callbacks
    THEN [c EXCEPT !.out = Append(@, ClientEntry("call", MSG_HW, pin, values,
                                                 <<values>>, <<>>)),
                   !.exc = IF c.virtual_pin_callbacks[pin] = "raise"
                           THEN "Exception" ELSE "none"]
    ELSE [c EXCEPT !.out = Append(@, ClientEntry("no_callback", MSG_HW, pin, values,
                                                 <<>>, <<>>))]

\* _process_message, lines 156-181: the dispatch on the command
ClientDispatch(c, cmd, id, length, text) ==
    IF ~text.ok THEN [c EXCEPT !.exc = "UnicodeError"]
    ELSE IF cmd = MSG_RSP
    THEN IF id = 1 THEN [c EXCEPT !.connected = (length = STA_SUCCESS)] ELSE c
    ELSE IF cmd = MSG_PING
    THEN ClientSend(ClientPackMsg(c, MSG_RSP, <<S_200, IntToStr(id)>>), MSG_RSP)
    ELSE IF cmd = MSG_HW \/ cmd = MSG_HW_SYNC
    THEN IF Len(SplitText(text.s)) > 1 /\ SplitText(text.s)[1] = S_vw
         THEN ClientHandleVirtualWrite(c, SplitText(text.s)[2],
                                       Drop(SplitText(text.s), 2))
         ELSE c
    ELSE [c EXCEPT !.out = Append(@, ClientEntry("unexpected", cmd, <<>>, <<>>,
                                                 <<>>, <<>>))]

\* the except clause of _process_message
ClientCaught(r) == [r EXCEPT !.exc = "none"]

\* _process_message(data): data is read as a frame, header first
ClientProcessMessage(c, data) ==
    IF Len(data) < 5
    THEN [c EXCEPT !.out = Append(@, ClientEntry("incomplete", 0, <<>>, <<>>,
                                                 <<>>, data))]
    ELSE IF UnpackHdr(Take(data, 5)).msg_id = 0
    THEN [c EXCEPT !.connected = FALSE]
    ELSE ClientCaught(
             ClientDispatch([c EXCEPT !.last_rcv_time = c.now],
                            UnpackHdr(Take(data, 5)).cmd,
                            UnpackHdr(Take(data, 5)).msg_id,
                            UnpackHdr(Take(data, 5)).dlen,
                            Utf8Decode(Slice(data, 5,
                                             5 + UnpackHdr(Take(data, 5)).dlen))))

\* _process_incoming; rx = <<>> stands for the timeout of recv_into.  The
\* header is unpacked here and the bytes after it are handed on
ClientProcessIncoming(c, rx) ==
    IF Len(rx) = 0 THEN c
    ELSE [ClientProcessMessage(
              [c EXCEPT !.got = rx],
              BufSlice(rx, 5, 5 + UnpackHdr(BufSlice(rx, 0, 5)).dlen))
            EXCEPT !.last_rcv_time = c.now]

\* run, lines 110-115
ClientRunBody(h, rx) ==
    IF h.exc # "none" THEN [h EXCEPT !.exc = "none", !.connected = FALSE]
    ELSE ClientProcessIncoming(h, rx)

ClientConnected(c1, rx) ==
    IF c1.exc # "none" THEN c1 ELSE ClientRunBody(ClientHandleHeartbeat(c1), rx)

\* blynk_client.Blynk.run
ClientRunOp(c, net, rx) ==
    ClientConnected(IF ~c.connected THEN ClientConnectOp(c, net) ELSE c, rx)

(* ---------------- the server of the client ---------------- *)
ClientFrame(cmd, id, fields) ==
    PackHdr(cmd, id, Len(Utf8Encode(JoinNul(fields)))) \o Utf8Encode(JoinNul(fields))

VwFields == {<<S_vw, S_1>>, <<S_vw, S_1, S_4>>, <<S_vw, S_2, S_4>>,
             <<S_vw, S_1, S_4, S_2>>}
VwFrames == {ClientFrame(MSG_HW, 2, f) : f \in VwFields}

\* a frame whose body is itself a hardware frame
NestedVw == PackHdr(MSG_HW, 2, Len(ClientFrame(MSG_HW, 3, <<S_vw, S_1, S_4>>)))
            \o ClientFrame(MSG_HW, 3, <<S_vw, S_1, S_4>>)

ClientFrames == VwFrames \cup {NestedVw, PingFrame, RspOk}

ClientPins == {S_1}
ClientBehaviours == {"ok", "raise"}

(* ---------------- actions on the client ---------------- *)
ClientRefused(r) == IF r.wn >= r.failAt THEN r.failAt ELSE 0

ClientCommit(r, op) ==
    /\ client' = [sock |-> r.sock, msg_id |-> r.msg_id, connected |-> r.connected,
                  virtual_pin_callbacks |-> r.virtual_pin_callbacks,
                  last_rcv_time |-> r.last_rcv_time,
                  last_ping_time |-> r.last_ping_time]
    /\ cout' = ClientCall(op, r.got, r.out,
                          IF r.exc # "none" THEN "raised" ELSE "None")
    /\ UNCHANGED <<state, msg_id, lastRecv, lastSend, lastPing, bin, callbacks,
                   conn, last_connect_attempt, buffin, now, wire, out, call, ret>>

\* time.monotonic() moves on between two calls on the client
ClientTick ==
    /\ \E t \in TimePoints : t > now /\ now' = t
    /\ cout' = ClientCall("idle", <<>>, <<>>, "None")
    /\ UNCHANGED <<state, msg_id, lastRecv, lastSend, lastPing, bin, callbacks,
                   conn, last_connect_attempt, buffin, wire, out, call, ret, client>>

RegisterVirtualPin ==
    \E pin \in ClientPins, b \in ClientBehaviours :
        /\ client' = [client EXCEPT !.virtual_pin_callbacks =
                         [x \in DOMAIN @ \cup {pin} |-> IF x = pin THEN b ELSE @[x]]]
        /\ cout' = ClientCall("register_virtual_pin", <<>>, <<>>, "None")
        /\ UNCHANGED <<state, msg_id, lastRecv, lastSend, lastPing, bin, callbacks,
                       conn, last_connect_attempt, buffin, now, wire, out, call, ret>>

ClientConnect ==
    \E net \in ClientNetOutcomes, failAt \in 0..MaxFailAt :
        /\ client.msg_id < MaxClientMsgId
        /\ \E r \in {ClientConnectOp(ClientSelf(failAt), net)} :
              /\ failAt = ClientRefused(r)
              /\ ClientCommit(r, "connect")

ClientRun ==
    \E net \in ClientNetOutcomes, rx \in ClientFrames \cup {<<>>},
       failAt \in 0..MaxFailAt :
        /\ client.msg_id < MaxClientMsgId
        /\ (client.connected => net = "ok")
        /\ \E r \in {ClientRunOp(ClientSelf(failAt), net, rx)} :
              /\ failAt = ClientRefused(r)
              /\ r.got = rx
              /\ ClientCommit(r, "run")

ClientVirtualWrite ==
    \E failAt \in 0..MaxFailAt :
        /\ client.msg_id < MaxClientMsgId
        /\ \E r \in {ClientVirtualWriteOp(ClientSelf(failAt), S_2, S_4)} :
              /\ failAt = ClientRefused(r)
              /\ ClientCommit(r, "virtual_write")

NextClient ==
    \/ ClientTick
    \/ RegisterVirtualPin
    \/ ClientConnect
    \/ ClientRun
    \/ ClientVirtualWrite

\* the stand-alone client of blynk_client.py
SpecClient == Init /\ [][NextClient]_vars

(* ---------------- C23 ---------------- *)
ClientCalls == {i \in DOMAIN cout.log : cout.log[i].t = "call"}

\* run() received the complete hardware frame with the fields f
ReceivedVw(f) == cout.op = "run" /\ cout.rx = ClientFrame(MSG_HW, 2, f)

\* C23: when run() of the client receives one complete hardware frame with
\* the fields 'vw', p, v..., the callback registered for pin p is invoked
\* once, with the received values; for a pin with no callback no callback
\* is invoked and the client stays connected.
C23_VirtualWriteDelivery ==
    \A f \in VwFields :
        ReceivedVw(f) =>
            IF f[2] \in DOMAIN client.virtual_pin_callbacks
            THEN /\ Cardinality(ClientCalls) = 1
                 /\ \A i \in ClientCalls :
                       /\ cout.log[i].pin = f[2]
                       /\ cout.log[i].vals = Drop(f, 2)
            ELSE /\ ClientCalls = {}
                 /\ client.connected

\* what the code does: the body of the frame is read as a frame of its own,
\* so a virtual write is dropped as incomplete or as an unexpected command
\* and no callback is invoked; the client stays connected
C23_BodyReadAsFrame ==
    \A f \in VwFields :
        ReceivedVw(f) =>
            /\ ClientCalls = {}
            /\ client.connected
            /\ \E i \in DOMAIN cout.log :
                  /\ cout.log[i].t \in {"incomplete", "unexpected"}
                  /\ (cout.log[i].t = "unexpected" => cout.log[i].cmd = S_vw[1])

C23_ReceivedWithCallback ==
    ReceivedVw(<<S_vw, S_1, S_4>>) /\ S_1 \in DOMAIN client.virtual_pin_callbacks

\* a callback is invoked when the body of the frame is a hardware frame
C23_NestedFrameDelivered ==
    /\ cout.op = "run"
    /\ cout.rx = NestedVw
    /\ \E i \in ClientCalls :
          cout.log[i].pin = S_1 /\ cout.log[i].arg = <<(<<S_4>>)>>

(* ---------------- C24 ---------------- *)
\* the 'connected' event at i is emitted in state Connected and after no
\* 'disconnected' event of the call
ConnectedInOrder(i) ==
    /\ out[i].st = CONNECTED
    /\ \A j \in 1..(i - 1) : ~IsEmit(j, S_disconnected)

\* C24: whenever 'connected' is emitted the state is Connected, and it is
\* never emitted after the 'disconnected' event of the same connection
\* attempt.
C24_ConnectedImpliesConnected ==
    \A i \in DOMAIN out : IsEmit(i, S_connected) => ConnectedInOrder(i)

\* what the code does: the order holds in every call in which the transport
\* accepts the client-info message, and fails in every call in which it
\* refuses it
C24_UnlessInfoRefused ==
    \A i \in DOMAIN out :
        IsEmit(i, S_connected) =>
            (ConnectedInOrder(i) <=>
                 ~\E j \in 1..(i - 1) : out[j].t = "fail" /\ out[j].cmd = MSG_INTERNAL)

C24_ConnectedAfterDisconnected ==
    \E i \in DOMAIN out :
        /\ IsEmit(i, S_connected)
        /\ out[i].st = DISCONNECTED
        /\ \E j \in 1..(i - 1) : IsEmit(j, S_disconnected)
        /\ state = DISCONNECTED

(* ---------------- C25 ---------------- *)
\* k further calls of run(), one heartbeat interval apart, in which the
\* transport delivers nothing; the calls stop once the engine is Disconnected
RECURSIVE SilentRuns(_, _)
SilentRuns(e, k) ==
    IF k = 0 \/ e.state = DISCONNECTED THEN e
    ELSE SilentRuns(run([e EXCEPT !.now = @ + heartbeat, !.out = <<>>],
                        "ok", "again", <<>>),
                    k - 1)

\* the engine after a silence of MaxSilentCalls heartbeat intervals
AfterSilence == SilentRuns(Self(0), MaxSilentCalls)

\* the buffer b holds a well-formed header of a frame whose body is not all there
BodyPendingIn(b) ==
    /\ Len(b) >= 5
    /\ UnpackHdr(Take(b, 5)).cmd # MSG_RSP
    /\ UnpackHdr(Take(b, 5)).msg_id # 0
    /\ UnpackHdr(Take(b, 5)).dlen <= 2 * buffin
    /\ Len(b) < 5 + UnpackHdr(Take(b, 5)).dlen

\* C25: when the engine is Connecting or Connected and the transport then
\* delivers no bytes for longer than one and a half heartbeat intervals while
\* run() keeps being called, the engine becomes Disconnected, whatever is
\* left in the receive buffer.
C25_SilentPeerDetected ==
    state # DISCONNECTED => AfterSilence.state = DISCONNECTED

\* what the code does: the silence is detected unless the buffer holds a
\* header whose body is pending; then every call sets lastRecv to the clock
\* again and the engine stays as it is
C25_UnlessBodyPending ==
    state # DISCONNECTED =>
        /\ AfterSilence.state = DISCONNECTED <=> ~BodyPendingIn(AfterSilence.bin)
        /\ BodyPending =>
              /\ AfterSilence.state = state
              /\ AfterSilence.bin = bin
              /\ AfterSilence.lastRecv = now + MaxSilentCalls * heartbeat

C25_PendingBodyReached == state = CONNECTED /\ BodyPending

(* ---------------- a long-lived connection ---------------- *)
\* the number of writes that takes the counter of a fresh connection to the
\* end of its range
LongRunLength == MaxId16 - MaxMsgId

\* n calls of virtual_write in a row, the log kept of the last one only
RECURSIVE Writes(_, _)
Writes(e, n) ==
    IF n = 0 THEN e
    ELSE IF n = 1 THEN Send([e EXCEPT !.out = <<>>], MSG_HW, <<S_vw, S_1, S_4>>, -1)
    ELSE CHOOSE r \in {Writes(h, n - (n \div 2)) : h \in {Writes(e, n \div 2)}} : TRUE

\* the application writes to a pin LongRunLength times
ManyWrites ==
    /\ state = CONNECTED
    /\ msg_id = MaxMsgId
    /\ bin = <<>>
    /\ wire = <<>>
    /\ Commit(Writes(Self(0), LongRunLength),
              Call("virtual_write", <<>>, 0, "many"))

\* virtual_write at the end of the range of the counter
WrapWrite ==
    \E failAt \in 0..MaxFailAt :
        /\ state # DISCONNECTED
        /\ msg_id >= MaxId16 - 1
        /\ \E r \in {Send(Self(failAt), MSG_HW, <<S_vw, S_1, S_4>>, -1)} :
              /\ failAt = Refused(r)
              /\ Commit(r, Call("virtual_write", <<>>, failAt, ""))

NextIds ==
    \/ PeerSendT
    \/ Connect
    \/ Disconnect
    \/ Run
    \/ VirtualWrite
    \/ ManyWrites
    \/ WrapWrite

\* the message ids of a connection that lives long enough for the counter
\* to wrap
SpecIds == Init /\ [][NextIds]_vars

(* ---------------- C26 ---------------- *)
IsWrite(x) == x.t \in {"send", "fail"}

\* a frame the engine originated: every frame but the reply to a ping
IsOwnFrame(x) == IsWrite(x) /\ x.cmd # MSG_RSP

IdRange == 1..MaxId16

\* the id n places after m, 1 following 65535
IdAfter(m, n) == ((m - 1 + n) % MaxId16) + 1

\* the ids of the frames own go up by one from first, and the counter c is
\* one past the last of them
Consecutive(own, first, c) ==
    /\ own[1].id = first
    /\ \A k \in 2..Len(own) :
          /\ own[k].id = IdAfter(own[k - 1].id, 1)
          /\ own[k].cmd # MSG_HW_LOGIN
    /\ c = IdAfter(own[Len(own)].id, 1)

\* the frames of one call continue the count of the connection, which the
\* login frame starts at 1
IdsContinue(before, own, after, many) ==
    IF many
    THEN /\ Len(own) = 1
         /\ own[1].id = IdAfter(before, LongRunLength - 1)
         /\ after = IdAfter(before, LongRunLength)
    ELSE IF Len(own) = 0 THEN after = before
    ELSE Consecutive(own, IF own[1].cmd = MSG_HW_LOGIN THEN 1 ELSE before, after)

C26_WitnessAfterWrap ==
    /\ call.op = "virtual_write"
    /\ \E i \in DOMAIN out :
          out[i].t = "send" /\ out[i].id = 1 /\ out[i].cmd = MSG_HW
    /\ msg_id = 2

(* ---------------- C27 ---------------- *)
\* the engine's fields are as they were before the call
FieldsUnchanged ==
    UNCHANGED <<state, msg_id, lastRecv, lastSend, lastPing, bin, callbacks,
                conn, last_connect_attempt, buffin>>

\* the call just made started a connection attempt
AttemptStarted == HasMark(out', "attempt")

\* C27: while Disconnected, run() starts connection attempts itself, and two
\* connection attempts are started at least 5000 ms apart; connect() called
\* within 5000 ms of the previous attempt returns False, leaves the state
\* Disconnected, opens no socket and sends nothing; connect() called in
\* Connecting or Connected returns True and changes nothing.
C27_ReconnectPacing ==
    [][/\ AttemptStarted =>
             /\ now - last_connect_attempt >= 5000
             /\ last_connect_attempt' = now
       /\ (call'.op = "run" /\ state = DISCONNECTED
             /\ now - last_connect_attempt >= 5000) => AttemptStarted
       /\ (call'.op = "connect" /\ state = DISCONNECTED
             /\ now - last_connect_attempt < 5000) =>
             /\ ret' = "False"
             /\ out' = <<>>
             /\ FieldsUnchanged
       /\ (call'.op = "connect" /\ state # DISCONNECTED) =>
             /\ ret' = "True"
             /\ out' = <<>>
             /\ FieldsUnchanged
      ]_vars

\* run() has started the second attempt, 5000 ms after the first
C27_Witness ==
    /\ call.op = "run"
    /\ call.pre = DISCONNECTED
    /\ HasMark(out, "attempt")
    /\ last_connect_attempt = StartTime + 5000
    /\ now = last_connect_attempt

\* connect() was called after an attempt that failed, and before the
\* 5000 ms were over
C27_WitnessTooSoon ==
    /\ call.op = "connect"
    /\ call.pre = DISCONNECTED
    /\ ret = "False"
    /\ out = <<>>
    /\ now - last_connect_attempt > 0
    /\ now - last_connect_attempt < 5000

\* connect() was called on a Connected engine
C27_WitnessAlready ==
    /\ call.op = "connect"
    /\ call.pre = CONNECTED
    /\ ret = "True"

====
